---- MODULE Spec2Model ----
(***************************************************************************)
(* The scheduled podcast checker of src/api/check-podcasts.js: one         *)
(* invocation of handler() against a remote playlist service.              *)
(*                                                                         *)
(* Time is counted in days (the code counts milliseconds and multiplies    *)
(* OLD_EPISODES_DAYS by 24*60*60*1000).  Episode URIs are opaque; they are *)
(* numbered 1..MaxUri and 0 stands for "no uri".  An episode's id and uri  *)
(* name the same episode ("spotify:episode:<id>"), so both carry the same  *)
(* number.                                                                 *)
(***************************************************************************)
EXTENDS Integers, Sequences, FiniteSets, TLC

\* ---- bounds of the model ------------------------------------------------
MaxSize == 3        \* playlist items + listed candidates + resume points of a run
MaxUri == MaxSize   \* distinct episode URIs

\* ---- consts.js (imported by check-podcasts.js, lines 3-8) ----------------
MY_SHOWS == <<1, 2>>
NEW_SHOWS_LIMIT == 2
OLD_EPISODES_DAYS == 1
MAX_EPISODES_PER_SHOW == 1

ShowIds == {MY_SHOWS[i] : i \in DOMAIN MY_SHOWS}

\* The day of the run: playlist items were added on the days 0..Now0, that is
\* before, on and after the day the age cutoff falls on.
Now0 == OLD_EPISODES_DAYS + 1

VARIABLES
  pc,                 \* position of handler()
  req,                \* what the handler has read of the request and the environment
  playlist,           \* remote: the items of the playlist, in order
  catalog,            \* remote: each show's newest episodes
  now,                \* Date.now()
  existingEpisodes,   \* handler: the snapshot
  newEpisodesAdded,   \* handler: let newEpisodesAdded
  results,            \* handler: const results
  showIdx,            \* handler: position of the for loop over MY_SHOWS
  epIdx,              \* handleShowEpisodes: position of the for loop over latestEpisodes
  addedParam,         \* handleShowEpisodes: its parameter newEpisodesAdded
  capIdx,             \* cleanupMaxEpisodes: position of the loop over showsWithTooManyEpisodes
  episodesData,       \* cleanupCompleatedEpisodes: episodesData.body.episodes
  fetched,            \* history: what the getEpisodes call returned
  prev,               \* history: the outcome of the invocation before this one
  calls,              \* history: the remote calls issued, in order
  responses           \* history: the HTTP responses sent

vars == <<pc, req, playlist, catalog, now, existingEpisodes, newEpisodesAdded,
          results, showIdx, epIdx, addedParam, capIdx, episodesData, fetched,
          prev, calls, responses>>

\* ---- small helpers ------------------------------------------------------
Range(s) == {s[i] : i \in DOMAIN s}

Front(s) == SubSeq(s, 1, Len(s) - 1)

RECURSIVE SumLen(_, _)
SumLen(f, S) ==
  IF S = {} THEN 0
  ELSE LET x == CHOOSE y \in S : TRUE IN Len(f[x]) + SumLen(f, S \ {x})

\* ---- the remote service's data ------------------------------------------
\* A playlist item: uri = 0 is an item without a track (or without a track uri).
NoTrack == [uri |-> 0, addedAt |-> 0, showId |-> 0]

ItemsWith(u) ==
  {NoTrack} \cup {[uri |-> u, addedAt |-> t, showId |-> s] : t \in 0..Now0, s \in ShowIds}

\* The playlists of n items; the k-th item with a track carries URI k.
RECURSIVE PlaylistsOf(_, _)
PlaylistsOf(n, u) ==
  IF n = 0 THEN {<<>>}
  ELSE UNION { { <<item>> \o rest :
                   rest \in PlaylistsOf(n - 1, IF item.uri = 0 THEN u ELSE u + 1) } :
               item \in ItemsWith(u) }

\* One element of a show's listing: uri = 0 is an element without a uri (or null).
Candidates ==
  {[uri |-> u, named |-> b] : u \in 1..MaxUri, b \in BOOLEAN} \cup {[uri |-> 0, named |-> TRUE]}

Listings == UNION {[1..k -> Candidates] : k \in 0..NEW_SHOWS_LIMIT}

\* All listings of a catalog, one after the other in the order of MY_SHOWS.
RECURSIVE Listed(_, _)
Listed(c, i) ==
  IF i > Len(MY_SHOWS) THEN <<>> ELSE c[MY_SHOWS[i]] \o Listed(c, i + 1)

Max(S) == CHOOSE x \in S : \A y \in S : y <= x

\* URIs are opaque: the playlist holds the URIs 1..k, and the episodes that are
\* not in the playlist are numbered in the order the listings first name them.
NamesUrisInOrder(c, k) ==
  LET l == Listed(c, 1) IN
    \A i \in DOMAIN l : l[i].uri <= Max({k} \cup {l[j].uri : j \in 1..(i - 1)}) + 1

\* The catalogs of at most m candidates, for a playlist that holds the URIs 1..k.
Catalogs(m, k) ==
  {c \in [ShowIds -> Listings] : SumLen(c, ShowIds) <= m /\ NamesUrisInOrder(c, k)}

\* The outcome of a remote call that failed: the status code the library reports
\* (0: none reported).
ErrorCodes == {0, 503}

\* ---- handler, lines 71-78: the snapshot ----------------------------------
HasTrackUri(item) == item.uri # 0

\* The remote data a run may start from: a playlist of n items, k of them with
\* a track, and listings of at most size - n candidates in all.
RemoteData(size) ==
  UNION { UNION { { <<p, c>> :
                      p \in {q \in PlaylistsOf(n, 1) : Len(SelectSeq(q, HasTrackUri)) = k},
                      c \in Catalogs(size - n, k) } :
                  k \in 0..n } :
          n \in 0..size }

ExistingEpisodesOf(items) ==
  LET kept == SelectSeq(items, HasTrackUri) IN
  [i \in DOMAIN kept |->
     [id |-> kept[i].uri, uri |-> kept[i].uri,
      addedAt |-> kept[i].addedAt, showId |-> kept[i].showId]]

Uris(s) == [i \in DOMAIN s |-> s[i].uri]

\* ---- handleShowEpisodes, lines 162-171: which candidates are added --------
\* (faulty variant: the name is not looked at)
SkipsEpisode_UriOnly(episode) == episode.uri = 0

\* line 163: if (!episode || !episode.uri || !episode.name) continue
SkipsEpisode(episode) == episode.uri = 0 \/ ~episode.named

\* (faulty variant: the snapshot is not consulted)
AlreadyExists_Never(existing, episode) == FALSE

\* (faulty variant: the candidate is compared with the first entry only)
AlreadyExists_FirstOnly(existing, episode) ==
  existing # <<>> /\ existing[1].uri = episode.uri

\* (faulty variant: the test is negated)
AlreadyExists_Negated(existing, episode) ==
  \A i \in DOMAIN existing : existing[i].uri # episode.uri

\* line 166: existingEpisodes.some((ep) => ep.uri === episode.uri)
AlreadyExists(existing, episode) == \E i \in DOMAIN existing : existing[i].uri = episode.uri

ShouldAdd(existing, episode) == ~SkipsEpisode(episode) /\ ~AlreadyExists(existing, episode)

\* ---- cleanupOldEpisodes, lines 212-216 -----------------------------------
Cutoff(t) == t - OLD_EPISODES_DAYS

\* (faulty variant: the entries added on the cutoff day are old too)
IsOld_Inclusive(episode, t) == episode.addedAt <= Cutoff(t)

IsOld(episode, t) == episode.addedAt < Cutoff(t)

OldEpisodes(existing, t) ==
  LET Old(episode) == IsOld(episode, t) IN SelectSeq(existing, Old)

\* ---- cleanupMaxEpisodes, lines 247-272 -----------------------------------
EpisodesOfShow(existing, showId) ==
  LET Mine(episode) == episode.showId = showId IN SelectSeq(existing, Mine)

\* lines 247-254: episodesPerShow[showId]
EpisodesPerShow(existing, showId) == Len(EpisodesOfShow(existing, showId))

\* The keys of episodesPerShow in the order Object.entries lists them: the order
\* in which the reduce first met each show.
RECURSIVE ShowKeys(_)
ShowKeys(existing) ==
  IF existing = <<>> THEN <<>>
  ELSE LET before == ShowKeys(Front(existing))
           showId == existing[Len(existing)].showId
       IN IF showId \in Range(before) THEN before ELSE Append(before, showId)

\* (faulty variant: the shows are not filtered by their count)
ShowsWithTooManyEpisodes_All(existing) == ShowKeys(existing)

\* lines 258-260
ShowsWithTooManyEpisodes(existing) ==
  LET TooMany(showId) == EpisodesPerShow(existing, showId) > MAX_EPISODES_PER_SHOW
  IN SelectSeq(ShowKeys(existing), TooMany)

\* line 270: .sort((a, b) => a.addedAt - b.addedAt), a stable sort
\* (faulty variant: an episode is put before the episodes of the same addedAt)
InsertByAddedAt_Unstable(sorted, episode) ==
  LET Earlier(e) == e.addedAt < episode.addedAt
      k == Len(SelectSeq(sorted, Earlier))
  IN SubSeq(sorted, 1, k) \o <<episode>> \o SubSeq(sorted, k + 1, Len(sorted))

InsertByAddedAt(sorted, episode) ==
  LET NotLater(e) == e.addedAt <= episode.addedAt
      k == Len(SelectSeq(sorted, NotLater))
  IN SubSeq(sorted, 1, k) \o <<episode>> \o SubSeq(sorted, k + 1, Len(sorted))

RECURSIVE SortByAddedAt(_)
SortByAddedAt(s) ==
  IF s = <<>> THEN <<>>
  ELSE InsertByAddedAt(SortByAddedAt(Front(s)), s[Len(s)])

\* (faulty variant: the newest episodes are taken)
EpisodesToRemove_Newest(existing, showId) ==
  LET sorted == SortByAddedAt(EpisodesOfShow(existing, showId)) IN
    SubSeq(sorted, MAX_EPISODES_PER_SHOW + 1, Len(sorted))

\* lines 266-272
EpisodesToRemove(existing, showId) ==
  SubSeq(SortByAddedAt(EpisodesOfShow(existing, showId)), 1,
         EpisodesPerShow(existing, showId) - MAX_EPISODES_PER_SHOW)

\* ---- cleanupCompleatedEpisodes, lines 292-306 ----------------------------
\* An element of the getEpisodes response, as far as the code reads it:
\*   uri          item.uri
\*   episode      whether item.episode is defined
\*   fully_played the resume point's flag ("none": no resume point, or no flag)
Progress == {"played", "unplayed", "none"}

\* The progress data the service may report for the snapshot: the resume points
\* count into the size of a run's input (a snapshot that fills it alone comes
\* without resume points).
ProgressData(existing, listed) ==
  {flags \in [DOMAIN existing -> Progress] :
     Len(existing) + listed + Cardinality({i \in DOMAIN flags : flags[i] # "none"})
       <= Max({MaxSize, Len(existing) + listed})}

EpisodeItems(existing, nested, flags) ==
  [i \in DOMAIN existing |->
     [uri |-> existing[i].uri, episode |-> nested, fully_played |-> flags[i]]]

\* line 305: item.episode.resume_point of an item without .episode is a TypeError
FilterThrows(items) == \E i \in DOMAIN items : ~items[i].episode

IsCompleted(item) == item.fully_played = "played"

\* lines 304-306
CompletedEpisodesUri(items) == Uris(SelectSeq(items, IsCompleted))

\* ---- the remote service's operations -------------------------------------
AddTrack(items, uri, showId, t) ==
  Append(items, [uri |-> uri, addedAt |-> t, showId |-> showId])

RemoveTracks(items, uris) ==
  LET Stays(item) == item.uri \notin Range(uris) IN SelectSeq(items, Stays)

Call(op, pass, showId, uris, ok) ==
  [op |-> op, pass |-> pass, show |-> showId, uris |-> uris, ok |-> ok]

\* error.statusCode || 500 (utils.js, handleSpotifyRequest)
StatusOf(code) == IF code = 0 THEN 500 ELSE code

ErrorResponse(status) ==
  [status |-> status, success |-> FALSE, newEpisodesAdded |-> 0, results |-> <<>>]

\* ---- the initial state ----------------------------------------------------
\* What a getEpisodes call returned: its status, whether the elements of its
\* episodes field had an episode field of their own, and the URIs it reported
\* as fully played.
Fetched(status, nested, items) ==
  [status |-> status, nested |-> nested, played |-> Range(CompletedEpisodesUri(items))]

Unread == [method |-> "unread", authorized |-> "unread", playlistId |-> "unread"]

NoRunBefore == [outcome |-> "none", added |-> 0, removed |-> {}]

\* A fresh invocation of handler against one of the given remote data.
InitFrom(remoteData) ==
  /\ pc = "entry"
  /\ req = Unread
  /\ \E data \in remoteData :
       /\ playlist = data[1]
       /\ catalog = data[2]
  /\ now = Now0
  /\ existingEpisodes = <<>>
  /\ newEpisodesAdded = 0
  /\ results = <<>>
  /\ showIdx = 0
  /\ epIdx = 0
  /\ addedParam = 0
  /\ capIdx = 0
  /\ episodesData = <<>>
  /\ fetched = Fetched("unfetched", FALSE, <<>>)
  /\ prev = NoRunBefore
  /\ calls = <<>>
  /\ responses = <<>>

\* A fresh invocation of handler against remote data of the given size.
InitWith(size) == InitFrom(RemoteData(size))

Init == InitWith(MaxSize)

fixed == <<catalog, now, prev>>
remote == <<playlist, fixed>>
locals == <<existingEpisodes, newEpisodesAdded, results, showIdx, epIdx, addedParam,
            capIdx, episodesData, fetched>>
showLocals == <<showIdx, epIdx, addedParam>>

\* (faulty variant: the catch block logs the error and sends nothing)
Caught_NoResponse(status) ==
  /\ pc' = "failed"
  /\ UNCHANGED responses

\* handler's catch block, lines 112-127: one error response.
Caught(status) ==
  /\ responses' = Append(responses, ErrorResponse(status))
  /\ pc' = "failed"

\* handleShowEpisodes' catch block, lines 185-205.  It uses res, which is a
\* parameter of handler and is not in scope here: line 200 throws a
\* ReferenceError out of handleShowEpisodes, and handler's catch answers it
\* with status 500 (the error is no SpotifyError).
ShowCaught == Caught(500)

\* ---- handler, lines 18-20 --------------------------------------------------
CheckMethod ==
  /\ pc = "entry"
  /\ \E m \in {"GET", "POST"} :
       /\ req' = [req EXCEPT !.method = m]
       /\ IF m # "GET"
          THEN /\ responses' = Append(responses, ErrorResponse(405))
               /\ pc' = "rejected"
          ELSE /\ pc' = "auth"
               /\ UNCHANGED responses
  /\ UNCHANGED <<remote, locals, calls>>

\* ---- handler, lines 23-25 --------------------------------------------------
\* (faulty variant: the header is read and not compared)
CheckAuthorization_NotCompared ==
  /\ pc = "auth"
  /\ \E a \in {"valid", "invalid"} : req' = [req EXCEPT !.authorized = a]
  /\ pc' = "config"
  /\ UNCHANGED <<remote, locals, calls, responses>>

CheckAuthorization ==
  /\ pc = "auth"
  /\ \E a \in {"valid", "invalid"} :
       /\ req' = [req EXCEPT !.authorized = a]
       /\ IF a # "valid"
          THEN /\ responses' = Append(responses, ErrorResponse(401))
               /\ pc' = "rejected"
          ELSE /\ pc' = "config"
               /\ UNCHANGED responses
  /\ UNCHANGED <<remote, locals, calls>>

\* ---- handler, lines 28-35 --------------------------------------------------
\* (faulty variant: the setting is read and not validated)
CheckPlaylistId_NotValidated ==
  /\ pc = "config"
  /\ \E id \in {"present", "missing"} : req' = [req EXCEPT !.playlistId = id]
  /\ pc' = "refresh"
  /\ UNCHANGED <<remote, locals, calls, responses>>

CheckPlaylistId ==
  /\ pc = "config"
  /\ \E id \in {"present", "missing"} :
       /\ req' = [req EXCEPT !.playlistId = id]
       /\ IF id = "missing"
          THEN Caught(500)
          ELSE /\ pc' = "refresh"
               /\ UNCHANGED responses
  /\ UNCHANGED <<remote, locals, calls>>

\* ---- handler, lines 50-62 --------------------------------------------------
RefreshAccessToken ==
  /\ pc = "refresh"
  /\ \/ /\ calls' = Append(calls, Call("refreshAccessToken", "token", 0, <<>>, TRUE))
        /\ \/ pc' = "snapshot" /\ UNCHANGED responses
           \/ Caught(500)                      \* line 57: no access_token in the body
     \/ \E code \in ErrorCodes :
          /\ calls' = Append(calls, Call("refreshAccessToken", "token", 0, <<>>, FALSE))
          /\ Caught(StatusOf(code))
  /\ UNCHANGED <<req, remote, locals>>

\* ---- handler, lines 64-84 --------------------------------------------------
\* (faulty variant: a failed fetch is taken for an empty playlist)
GetPlaylistTracks_GoesOn ==
  /\ pc = "snapshot"
  /\ \E ok \in BOOLEAN :
       /\ calls' = Append(calls, Call("getPlaylistTracks", "snapshot", 0, <<>>, ok))
       /\ existingEpisodes' = IF ok THEN ExistingEpisodesOf(playlist) ELSE <<>>
  /\ newEpisodesAdded' = 0
  /\ results' = <<>>
  /\ showIdx' = 1
  /\ pc' = "show"
  /\ UNCHANGED <<req, remote, epIdx, addedParam, capIdx, episodesData, fetched, responses>>

GetPlaylistTracks ==
  /\ pc = "snapshot"
  /\ \/ /\ calls' = Append(calls, Call("getPlaylistTracks", "snapshot", 0, <<>>, TRUE))
        /\ existingEpisodes' = ExistingEpisodesOf(playlist)
        /\ newEpisodesAdded' = 0
        /\ results' = <<>>
        /\ showIdx' = 1
        /\ pc' = "show"
        /\ UNCHANGED responses
     \/ \E code \in ErrorCodes :
          /\ calls' = Append(calls, Call("getPlaylistTracks", "snapshot", 0, <<>>, FALSE))
          /\ Caught(StatusOf(code))
          /\ UNCHANGED <<existingEpisodes, newEpisodesAdded, results, showIdx>>
  /\ UNCHANGED <<req, remote, epIdx, addedParam, capIdx, episodesData, fetched>>

\* ---- handler line 87-96, handleShowEpisodes lines 138-160 ------------------
\* One iteration of the loop over MY_SHOWS, up to the listing of the show.
LatestEpisodes == catalog[MY_SHOWS[showIdx]]

\* (faulty variant: an empty listing is gone through like any other)
GetShowEpisodes_NoEarlyReturn ==
  /\ pc = "show"
  /\ showIdx <= Len(MY_SHOWS)
  /\ LET showId == MY_SHOWS[showIdx] IN
       \/ /\ calls' = Append(calls, Call("getShowEpisodes", "show", showId, <<>>, TRUE))
          /\ epIdx' = 1
          /\ addedParam' = newEpisodesAdded
          /\ pc' = "episode"
          /\ UNCHANGED <<showIdx, responses>>
       \/ /\ calls' = Append(calls, Call("getShowEpisodes", "show", showId, <<>>, FALSE))
          /\ ShowCaught
          /\ UNCHANGED showLocals
  /\ UNCHANGED <<req, remote, existingEpisodes, newEpisodesAdded, results, capIdx,
                 episodesData, fetched>>

GetShowEpisodes ==
  /\ pc = "show"
  /\ showIdx <= Len(MY_SHOWS)
  /\ LET showId == MY_SHOWS[showIdx] IN
       \/ /\ calls' = Append(calls, Call("getShowEpisodes", "show", showId, <<>>, TRUE))
          /\ IF LatestEpisodes = <<>>
             THEN \* lines 155-158: return, without a record in results
                  /\ showIdx' = showIdx + 1
                  /\ pc' = "show"
                  /\ UNCHANGED <<epIdx, addedParam>>
             ELSE /\ epIdx' = 1
                  /\ addedParam' = newEpisodesAdded   \* the argument, passed by value
                  /\ pc' = "episode"
                  /\ UNCHANGED showIdx
          /\ UNCHANGED responses
       \/ /\ calls' = Append(calls, Call("getShowEpisodes", "show", showId, <<>>, FALSE))
          /\ ShowCaught
          /\ UNCHANGED showLocals
  /\ UNCHANGED <<req, remote, existingEpisodes, newEpisodesAdded, results, capIdx,
                 episodesData, fetched>>

\* ---- handleShowEpisodes, lines 162-180: one iteration over latestEpisodes ---
ProcessEpisode ==
  /\ pc = "episode"
  /\ epIdx <= Len(LatestEpisodes)
  /\ LET episode == LatestEpisodes[epIdx]
         showId == MY_SHOWS[showIdx]
     IN IF ~ShouldAdd(existingEpisodes, episode)
        THEN /\ epIdx' = epIdx + 1
             /\ UNCHANGED <<pc, playlist, addedParam, calls, responses>>
        ELSE \/ /\ calls' = Append(calls, Call("addTracksToPlaylist", "admission",
                                               showId, <<episode.uri>>, TRUE))
                /\ playlist' = AddTrack(playlist, episode.uri, showId, now)
                /\ addedParam' = addedParam + 1       \* line 179: the parameter only
                /\ epIdx' = epIdx + 1
                /\ UNCHANGED <<pc, responses>>
             \/ /\ calls' = Append(calls, Call("addTracksToPlaylist", "admission",
                                               showId, <<episode.uri>>, FALSE))
                /\ ShowCaught
                /\ UNCHANGED <<playlist, addedParam, epIdx>>
  /\ UNCHANGED <<req, fixed, existingEpisodes, newEpisodesAdded, results,
                 showIdx, capIdx, episodesData, fetched>>

\* ---- handleShowEpisodes, lines 181-184 -------------------------------------
FinishShow ==
  /\ pc = "episode"
  /\ epIdx > Len(LatestEpisodes)
  /\ results' = Append(results, [showId |-> MY_SHOWS[showIdx], success |-> TRUE])
  /\ showIdx' = showIdx + 1
  /\ pc' = "show"
  /\ UNCHANGED <<req, remote, existingEpisodes, newEpisodesAdded, epIdx, addedParam,
                 capIdx, episodesData, fetched, calls, responses>>

\* ---- cleanupOldEpisodes, lines 208-241 -------------------------------------
\* (faulty variant: a failed removal is thrown on to handler)
CleanupOldEpisodes_Throws ==
  /\ pc = "show"
  /\ showIdx > Len(MY_SHOWS)
  /\ LET oldEpisodes == OldEpisodes(existingEpisodes, now) IN
       IF oldEpisodes = <<>>
       THEN /\ capIdx' = 1
            /\ pc' = "cap"
            /\ UNCHANGED <<playlist, calls, responses>>
       ELSE \/ /\ calls' = Append(calls, Call("removeTracksFromPlaylist", "age", 0,
                                              Uris(oldEpisodes), TRUE))
               /\ playlist' = RemoveTracks(playlist, Uris(oldEpisodes))
               /\ capIdx' = 1
               /\ pc' = "cap"
               /\ UNCHANGED responses
            \/ /\ calls' = Append(calls, Call("removeTracksFromPlaylist", "age", 0,
                                              Uris(oldEpisodes), FALSE))
               /\ Caught(500)
               /\ UNCHANGED <<playlist, capIdx>>
  /\ UNCHANGED <<req, fixed, existingEpisodes, newEpisodesAdded, results,
                 showLocals, episodesData, fetched>>

\* (faulty variant: the removal is requested for an empty selection too)
CleanupOldEpisodes_AlwaysCalls ==
  /\ pc = "show"
  /\ showIdx > Len(MY_SHOWS)
  /\ LET oldEpisodes == OldEpisodes(existingEpisodes, now) IN
       \/ /\ calls' = Append(calls, Call("removeTracksFromPlaylist", "age", 0,
                                          Uris(oldEpisodes), TRUE))
          /\ playlist' = RemoveTracks(playlist, Uris(oldEpisodes))
       \/ /\ calls' = Append(calls, Call("removeTracksFromPlaylist", "age", 0,
                                          Uris(oldEpisodes), FALSE))
          /\ UNCHANGED playlist
  /\ capIdx' = 1
  /\ pc' = "cap"
  /\ UNCHANGED <<req, fixed, existingEpisodes, newEpisodesAdded, results,
                 showLocals, episodesData, fetched, responses>>

CleanupOldEpisodes ==
  /\ pc = "show"
  /\ showIdx > Len(MY_SHOWS)
  /\ LET oldEpisodes == OldEpisodes(existingEpisodes, now) IN
       IF oldEpisodes = <<>>
       THEN UNCHANGED <<playlist, calls>>
       ELSE \/ /\ calls' = Append(calls, Call("removeTracksFromPlaylist", "age", 0,
                                              Uris(oldEpisodes), TRUE))
               /\ playlist' = RemoveTracks(playlist, Uris(oldEpisodes))
            \/ /\ calls' = Append(calls, Call("removeTracksFromPlaylist", "age", 0,
                                              Uris(oldEpisodes), FALSE))
               /\ UNCHANGED playlist
  /\ capIdx' = 1
  /\ pc' = "cap"
  /\ UNCHANGED <<req, fixed, existingEpisodes, newEpisodesAdded, results,
                 showLocals, episodesData, fetched, responses>>

\* ---- cleanupMaxEpisodes, lines 264-280: one show over the cap ---------------
\* (faulty variant: the failure is caught inside the loop, show by show)
CleanupMaxEpisodes_GoesOn ==
  /\ pc = "cap"
  /\ capIdx <= Len(ShowsWithTooManyEpisodes(existingEpisodes))
  /\ LET showId == ShowsWithTooManyEpisodes(existingEpisodes)[capIdx]
         uris == Uris(EpisodesToRemove(existingEpisodes, showId))
     IN \/ /\ calls' = Append(calls, Call("removeTracksFromPlaylist", "cap", showId,
                                          uris, TRUE))
           /\ playlist' = RemoveTracks(playlist, uris)
        \/ /\ calls' = Append(calls, Call("removeTracksFromPlaylist", "cap", showId,
                                          uris, FALSE))
           /\ UNCHANGED playlist
  /\ capIdx' = capIdx + 1
  /\ UNCHANGED <<pc, req, fixed, existingEpisodes, newEpisodesAdded, results,
                 showLocals, episodesData, fetched, responses>>

CleanupMaxEpisodes ==
  /\ pc = "cap"
  /\ capIdx <= Len(ShowsWithTooManyEpisodes(existingEpisodes))
  /\ LET showId == ShowsWithTooManyEpisodes(existingEpisodes)[capIdx]
         uris == Uris(EpisodesToRemove(existingEpisodes, showId))
     IN \/ /\ calls' = Append(calls, Call("removeTracksFromPlaylist", "cap", showId,
                                          uris, TRUE))
           /\ playlist' = RemoveTracks(playlist, uris)
           /\ capIdx' = capIdx + 1
           /\ UNCHANGED pc
        \/ \* lines 281-287: the catch block ends the pass
           /\ calls' = Append(calls, Call("removeTracksFromPlaylist", "cap", showId,
                                          uris, FALSE))
           /\ pc' = "purge"
           /\ UNCHANGED <<playlist, capIdx>>
  /\ UNCHANGED <<req, fixed, existingEpisodes, newEpisodesAdded, results,
                 showLocals, episodesData, fetched, responses>>

\* ---- cleanupMaxEpisodes: the loop is over -----------------------------------
CleanupMaxEpisodesDone ==
  /\ pc = "cap"
  /\ capIdx > Len(ShowsWithTooManyEpisodes(existingEpisodes))
  /\ pc' = "purge"
  /\ UNCHANGED <<req, remote, locals, calls, responses>>

\* ---- cleanupCompleatedEpisodes, lines 292-306 ------------------------------
\* The pass is over when the call fails, when the response has no episodes
\* field and when the filter throws: the catch block of lines 315-321.
\* (faulty variant: the missing episodes field is thrown on to handler)
GetEpisodes_Uncaught ==
  /\ pc = "purge"
  /\ LET ids == Uris(existingEpisodes) IN
       \/ /\ calls' = Append(calls, Call("getEpisodes", "purge", 0, ids, FALSE))
          /\ fetched' = Fetched("failed", FALSE, <<>>)
          /\ pc' = "respond"
          /\ UNCHANGED <<episodesData, responses>>
       \/ /\ calls' = Append(calls, Call("getEpisodes", "purge", 0, ids, TRUE))
          /\ fetched' = Fetched("noEpisodes", FALSE, <<>>)
          /\ Caught(500)
          /\ UNCHANGED episodesData
       \/ \E nested \in BOOLEAN,
             flags \in ProgressData(existingEpisodes, SumLen(catalog, ShowIds)) :
            LET items == EpisodeItems(existingEpisodes, nested, flags) IN
              /\ calls' = Append(calls, Call("getEpisodes", "purge", 0, ids, TRUE))
              /\ fetched' = Fetched("ok", nested, items)
              /\ UNCHANGED responses
              /\ IF FilterThrows(items)
                 THEN pc' = "respond" /\ UNCHANGED episodesData
                 ELSE pc' = "purgeRemove" /\ episodesData' = items
  /\ UNCHANGED <<req, remote, existingEpisodes, newEpisodesAdded, results, showLocals,
                 capIdx>>

GetEpisodes ==
  /\ pc = "purge"
  /\ LET ids == Uris(existingEpisodes) IN
       \/ /\ calls' = Append(calls, Call("getEpisodes", "purge", 0, ids, FALSE))
          /\ fetched' = Fetched("failed", FALSE, <<>>)
          /\ pc' = "respond"
          /\ UNCHANGED episodesData
       \/ \* lines 298-302: no episodes field
          /\ calls' = Append(calls, Call("getEpisodes", "purge", 0, ids, TRUE))
          /\ fetched' = Fetched("noEpisodes", FALSE, <<>>)
          /\ pc' = "respond"
          /\ UNCHANGED episodesData
       \/ \E nested \in BOOLEAN,
             flags \in ProgressData(existingEpisodes, SumLen(catalog, ShowIds)) :
            LET items == EpisodeItems(existingEpisodes, nested, flags) IN
              /\ calls' = Append(calls, Call("getEpisodes", "purge", 0, ids, TRUE))
              /\ fetched' = Fetched("ok", nested, items)
              /\ IF FilterThrows(items)
                 THEN pc' = "respond" /\ UNCHANGED episodesData
                 ELSE pc' = "purgeRemove" /\ episodesData' = items
  /\ UNCHANGED <<req, remote, existingEpisodes, newEpisodesAdded, results, showLocals,
                 capIdx, responses>>

\* ---- cleanupCompleatedEpisodes, lines 309-322 ------------------------------
RemoveCompletedEpisodes ==
  /\ pc = "purgeRemove"
  /\ LET uris == CompletedEpisodesUri(episodesData) IN
       \/ /\ calls' = Append(calls, Call("removeTracksFromPlaylist", "purge", 0, uris, TRUE))
          /\ playlist' = RemoveTracks(playlist, uris)
       \/ /\ calls' = Append(calls, Call("removeTracksFromPlaylist", "purge", 0, uris, FALSE))
          /\ UNCHANGED playlist
  /\ episodesData' = <<>>          \* the pass returns
  /\ pc' = "respond"
  /\ UNCHANGED <<req, fixed, existingEpisodes, newEpisodesAdded, results,
                 showLocals, capIdx, fetched, responses>>

\* ---- handler, lines 106-111 --------------------------------------------------
\* (faulty variant: the outcome is sent without waiting for Completed Purge)
Respond_BeforePurge ==
  /\ pc \in {"purge", "respond"}
  /\ responses' = Append(responses,
                         [status |-> 200, success |-> TRUE,
                          newEpisodesAdded |-> newEpisodesAdded, results |-> results])
  /\ pc' = "done"
  /\ UNCHANGED <<req, remote, locals, calls>>

Respond ==
  /\ pc = "respond"
  /\ responses' = Append(responses,
                         [status |-> 200, success |-> TRUE,
                          newEpisodesAdded |-> newEpisodesAdded, results |-> results])
  /\ pc' = "done"
  /\ UNCHANGED <<req, remote, locals, calls>>

\* ---- the scheduler invokes the handler once more ----------------------------
\* Nothing of an invocation is kept but the remote playlist (spec: "the core
\* holds no persisted state between runs"); the same day or a day later.
NextInvocation ==
  /\ pc \in {"done", "failed", "rejected"}
  /\ prev.outcome = "none"
  /\ prev' = [outcome |-> pc,
              added |-> Cardinality({k \in DOMAIN calls :
                          calls[k].op = "addTracksToPlaylist" /\ calls[k].ok}),
              removed |-> UNION {Range(calls[k].uris) : k \in
                          {l \in DOMAIN calls :
                             calls[l].op = "removeTracksFromPlaylist" /\ calls[l].ok}}]
  /\ now' \in {now, now + 1}
  /\ pc' = "entry"
  /\ req' = Unread
  /\ existingEpisodes' = <<>>
  /\ newEpisodesAdded' = 0
  /\ results' = <<>>
  /\ showIdx' = 0
  /\ epIdx' = 0
  /\ addedParam' = 0
  /\ capIdx' = 0
  /\ episodesData' = <<>>
  /\ fetched' = Fetched("unfetched", FALSE, <<>>)
  /\ calls' = <<>>
  /\ responses' = <<>>
  /\ UNCHANGED <<playlist, catalog>>

Next ==
  \/ CheckMethod
  \/ CheckAuthorization
  \/ CheckPlaylistId
  \/ RefreshAccessToken
  \/ GetPlaylistTracks
  \/ GetShowEpisodes
  \/ ProcessEpisode
  \/ FinishShow
  \/ CleanupOldEpisodes
  \/ CleanupMaxEpisodes
  \/ CleanupMaxEpisodesDone
  \/ GetEpisodes
  \/ RemoveCompletedEpisodes
  \/ Respond

Spec == Init /\ [][Next]_vars

\* Two invocations in succession, on remote data of a smaller size.
MaxRepeatSize == 2

InitRepeat == InitWith(MaxRepeatSize)

NextRepeat == Next \/ NextInvocation

SpecRepeat == InitRepeat /\ [][NextRepeat]_vars

\* One invocation on remote data of a smaller size, given its turn whenever
\* it can take a step: the continuation of every await runs once the awaited
\* call has returned.
MaxLiveSize == 2

InitLive == InitWith(MaxLiveSize)

SpecLive == InitLive /\ [][Next]_vars /\ WF_vars(Next)

\* One invocation against a larger playlist, of up to MaxCapSize episodes:
\* enough for several shows over the cap.  Next to the remote data of the
\* repeated runs, the larger playlists come at a time when no show lists an
\* episode.
MaxCapSize == 4

NothingListed == [showId \in ShowIds |-> <<>>]

EpisodePlaylists(n) ==
  {q \in PlaylistsOf(n, 1) : \A i \in DOMAIN q : HasTrackUri(q[i])}

LargePlaylistData(size) ==
  RemoteData(MaxRepeatSize)
    \cup UNION { {<<p, NothingListed>> : p \in EpisodePlaylists(n)} :
                 n \in (MaxRepeatSize + 1)..size }

InitCap == InitFrom(LargePlaylistData(MaxCapSize))

SpecCap == InitCap /\ [][Next]_vars

(***************************************************************************)
(* What the claims speak of, read from the history of a run.               *)
(***************************************************************************)
Terminated == pc \in {"done", "failed", "rejected"}

AddCalls == {k \in DOMAIN calls : calls[k].op = "addTracksToPlaylist"}

RemoveCalls == {k \in DOMAIN calls : calls[k].op = "removeTracksFromPlaylist"}

RemoveCallsOf(pass) == {k \in RemoveCalls : calls[k].pass = pass}

LookupCalls == {k \in DOMAIN calls : calls[k].op = "getShowEpisodes"}

SnapshotLoaded == \E k \in DOMAIN calls : calls[k].op = "getPlaylistTracks" /\ calls[k].ok

LookedUp(showId) == \E k \in LookupCalls : calls[k].show = showId

LookupFailed(showId) == \E k \in LookupCalls : calls[k].show = showId /\ ~calls[k].ok

LookupSucceeded(showId) == \E k \in LookupCalls : calls[k].show = showId /\ calls[k].ok

PassRan(pass) == \/ \E k \in DOMAIN calls : calls[k].pass = pass
                 \/ pass = "age" /\ pc \in {"cap", "purge", "purgeRemove", "respond", "done"}
                 \/ pass = "cap" /\ pc \in {"purge", "purgeRemove", "respond", "done"}
                 \/ pass = "purge" /\ pc \in {"purgeRemove", "respond", "done"}

Outcome == responses[Len(responses)]

\* C1: when the lookup of show i fails, the shows after i are still looked up,
\* the three cleanup passes run, the run ends in Done with success = true, and
\* the results hold a failure record for show i.
C1_LookupFailureIsIsolated ==
  \A i \in DOMAIN MY_SHOWS :
    (Terminated /\ LookupFailed(MY_SHOWS[i])) =>
      /\ pc = "done"
      /\ Outcome.success
      /\ \A j \in (i + 1)..Len(MY_SHOWS) : LookedUp(MY_SHOWS[j])
      /\ PassRan("age") /\ PassRan("cap") /\ PassRan("purge")
      /\ \E r \in DOMAIN Outcome.results :
           Outcome.results[r].showId = MY_SHOWS[i] /\ ~Outcome.results[r].success

\* C2: when the add of one candidate fails, the candidate is not retried, the
\* later shows are still looked up, and the run does not abort: it ends in Done.
C2_FailedAddIsSkipped ==
  (Terminated /\ \E k \in AddCalls : ~calls[k].ok) =>
    /\ pc = "done"
    /\ \A i \in DOMAIN MY_SHOWS : LookedUp(MY_SHOWS[i])
    /\ \A i \in DOMAIN MY_SHOWS :
         Cardinality({k \in AddCalls : calls[k].show = MY_SHOWS[i]})
           <= Len(catalog[MY_SHOWS[i]])

\* C3: once the snapshot is loaded, no failure makes the run end in Failed.
C3_NoFailureAfterSnapshot ==
  SnapshotLoaded => pc # "failed"

\* C4: the newEpisodesAdded of the Done outcome is the number of add calls that
\* succeeded in the run.
C4_CountsSuccessfulAdds ==
  pc = "done" =>
    Outcome.newEpisodesAdded = Cardinality({k \in AddCalls : calls[k].ok})

\* ---- C5 ---------------------------------------------------------------------
SnapshotUris == {existingEpisodes[i].uri : i \in DOMAIN existingEpisodes}

\* The URIs of the add calls issued for a show, in the order of the calls.
AddsOf(showId) ==
  LET Mine(c) == c.op = "addTracksToPlaylist" /\ c.show = showId
      mine == SelectSeq(calls, Mine)
  IN [k \in DOMAIN mine |-> mine[k].uris[1]]

\* The handler is done with the i-th show: handleShowEpisodes has returned or thrown.
ShowOver(i) == showIdx > i \/ (pc = "failed" /\ showIdx = i)

IsPrefix(s, t) == Len(s) <= Len(t) /\ SubSeq(t, 1, Len(s)) = s

\* C5 as claimed: for a show whose lookup succeeded (and that the handler has
\* gone through), the URIs an add is issued for are exactly the URIs of the
\* listed candidates that carry a URI that is not in the snapshot.
C5_AddsAreTheNewUris ==
  \A i \in DOMAIN MY_SHOWS :
    LET showId == MY_SHOWS[i] IN
      (LookupSucceeded(showId) /\ showIdx > i) =>
         Range(AddsOf(showId)) =
           {c.uri : c \in {d \in Range(catalog[showId]) :
                             d.uri # 0 /\ d.uri \notin SnapshotUris}}

\* C5 as amended: for a show whose lookup succeeded, the adds issued are, in the
\* order of the listing, the candidates that carry a URI and a name and whose
\* URI is not in the snapshot, up to the first add that fails; a candidate
\* whose URI is in the snapshot, or without a URI, or without a name, is never
\* added.
C5_AddsAreTheNamedNewCandidates ==
  \A i \in DOMAIN MY_SHOWS :
    LET showId == MY_SHOWS[i]
        Eligible(c) == c.uri # 0 /\ c.named /\ c.uri \notin SnapshotUris
        eligible == Uris(SelectSeq(catalog[showId], Eligible))
        issued == AddsOf(showId)
        failed == {k \in AddCalls : calls[k].show = showId /\ ~calls[k].ok}
    IN LookupSucceeded(showId) =>
         /\ IsPrefix(issued, eligible)
         /\ (showIdx > i => issued = eligible)
         /\ \A k \in failed : \A l \in AddCalls : l <= k
         /\ (ShowOver(i) /\ issued # eligible) => failed # {}

\* A show is over whose listing held a new candidate without a name next to
\* one that was added.
C5_Witness ==
  \E i \in DOMAIN MY_SHOWS :
    /\ showIdx > i
    /\ AddsOf(MY_SHOWS[i]) # <<>>
    /\ \E c \in Range(catalog[MY_SHOWS[i]]) :
         c.uri # 0 /\ ~c.named /\ c.uri \notin SnapshotUris

\* ---- C7 ---------------------------------------------------------------------
\* The snapshot entries Age Expiry is to select: added more than
\* OLD_EPISODES_DAYS days before the run.
Expired == {i \in DOMAIN existingEpisodes :
              existingEpisodes[i].addedAt + OLD_EPISODES_DAYS < now}

\* C7: Age Expiry requests no entry with addedAt >= now - maxAgeDays; when some
\* snapshot entry is strictly older it issues exactly one removal call, whose
\* URIs are those of all the strictly older entries.
C7_AgeExpirySelectsTheOlder ==
  /\ Cardinality(RemoveCallsOf("age")) <= 1
  /\ \A k \in RemoveCallsOf("age") :
       /\ Range(calls[k].uris) = {existingEpisodes[i].uri : i \in Expired}
       /\ Len(calls[k].uris) = Cardinality(Expired)
       /\ \A i \in DOMAIN existingEpisodes :
            existingEpisodes[i].addedAt >= now - OLD_EPISODES_DAYS
              => existingEpisodes[i].uri \notin Range(calls[k].uris)
  /\ (PassRan("age") /\ Expired # {}) => Cardinality(RemoveCallsOf("age")) = 1

\* Age Expiry has removed an entry and kept one that was added on the cutoff day.
C7_Witness ==
  /\ \E k \in RemoveCallsOf("age") : calls[k].ok
  /\ \E i \in DOMAIN existingEpisodes :
       existingEpisodes[i].addedAt = now - OLD_EPISODES_DAYS

\* ---- C8 ---------------------------------------------------------------------
PlaylistUris == {playlist[i].uri : i \in DOMAIN playlist}

SnapshotOf(showId) == {i \in DOMAIN existingEpisodes : existingEpisodes[i].showId = showId}

\* The snapshot entries of a show that are still in the playlist.
Remaining(showId) ==
  {i \in SnapshotOf(showId) : existingEpisodes[i].uri \in PlaylistUris}

\* The snapshot entries of a show that Age Expiry has removed.
RemovedByAge(showId) ==
  {i \in SnapshotOf(showId) :
     \E k \in RemoveCallsOf("age") :
       calls[k].ok /\ existingEpisodes[i].uri \in Range(calls[k].uris)}

\* The entries a removal request names are the oldest of the show.
RequestsTheOldest(k) ==
  LET showId == calls[k].show
      requested == {i \in SnapshotOf(showId) :
                      existingEpisodes[i].uri \in Range(calls[k].uris)}
  IN /\ Cardinality(requested) = Len(calls[k].uris)
     /\ Len(calls[k].uris) = Cardinality(SnapshotOf(showId)) - MAX_EPISODES_PER_SHOW
     /\ \A i \in requested : \A j \in SnapshotOf(showId) \ requested :
          existingEpisodes[i].addedAt <= existingEpisodes[j].addedAt

\* The Per-Show Cap pass has removed entries and Completed Purge has not yet
\* changed the playlist.
AfterCapOf(k) ==
  /\ k \in RemoveCallsOf("cap")
  /\ calls[k].ok
  /\ pc \in {"cap", "purge", "purgeRemove"}

\* C8 as claimed: after the Per-Show Cap pass has removed entries of a show
\* over the cap (Age Expiry having run on the same snapshot), exactly
\* maxPerShow of the show's snapshot entries remain in the playlist, and the
\* removed ones are the count - maxPerShow oldest.
C8_CapLeavesExactlyMax ==
  \A k \in DOMAIN calls :
    AfterCapOf(k) =>
      /\ Cardinality(Remaining(calls[k].show)) = MAX_EPISODES_PER_SHOW
      /\ RequestsTheOldest(k)

\* C8 as amended: at most maxPerShow of the show's snapshot entries remain:
\* exactly maxPerShow when Age Expiry removed at most count - maxPerShow of
\* them, and count minus the number Age Expiry removed otherwise; the entries
\* the pass requests are the count - maxPerShow oldest.
C8_CapLeavesAtMostMax ==
  \A k \in DOMAIN calls :
    AfterCapOf(k) =>
      LET showId == calls[k].show
          count == Cardinality(SnapshotOf(showId))
          byAge == Cardinality(RemovedByAge(showId))
      IN /\ count > MAX_EPISODES_PER_SHOW
         /\ Cardinality(Remaining(showId)) =
              IF byAge > count - MAX_EPISODES_PER_SHOW
              THEN count - byAge
              ELSE MAX_EPISODES_PER_SHOW
         /\ RequestsTheOldest(k)

\* The cap pass has removed the older of two entries of a show that Age Expiry
\* left alone, out of snapshot order.
C8_Witness ==
  \E k \in DOMAIN calls :
    /\ AfterCapOf(k)
    /\ RemovedByAge(calls[k].show) = {}
    /\ Cardinality(Remaining(calls[k].show)) = MAX_EPISODES_PER_SHOW
    /\ \E i \in SnapshotOf(calls[k].show) : \E j \in SnapshotOf(calls[k].show) :
         i < j /\ existingEpisodes[j].addedAt < existingEpisodes[i].addedAt

\* ---- C9 ---------------------------------------------------------------------
\* C9: when the metadata fetch succeeds with a response that has its episodes
\* field, Completed Purge removes, in one removal call, exactly the entries the
\* response reports as fully played.
C9_PurgeRemovesThePlayed ==
  (pc \in {"respond", "done"} /\ fetched.status = "ok") =>
    /\ Cardinality(RemoveCallsOf("purge")) <= 1
    /\ \A k \in RemoveCallsOf("purge") : Range(calls[k].uris) = fetched.played
    /\ fetched.played # {} => RemoveCallsOf("purge") # {}

\* ---- C10 --------------------------------------------------------------------
\* C10: every removal request names snapshot entries only, and no URI an add
\* was issued for in this run is named in a removal request of the run.
C10_RetentionReadsTheSnapshot ==
  \A r \in RemoveCalls :
    /\ Range(calls[r].uris) \subseteq SnapshotUris
    /\ \A a \in AddCalls : calls[a].uris[1] \notin Range(calls[r].uris)

\* An episode was added and a later pass removed entries.
C10_Witness ==
  /\ \E a \in AddCalls : calls[a].ok
  /\ \E r \in RemoveCalls : calls[r].ok /\ calls[r].uris # <<>>

\* ---- C6 ---------------------------------------------------------------------
ListedUris == {c.uri : c \in UNION {Range(catalog[showId]) : showId \in ShowIds}}

\* The invocation before this one went through discovery and admission with
\* every lookup and every add succeeding, and its cleanup passes removed no
\* listed episode: this invocation reads its snapshot after it and gets the
\* same listings.
RepeatsAdmission ==
  /\ prev.outcome = "done"
  /\ prev.removed \cap ListedUris = {}

\* C6: discovery and admission run a second time, after a first run whose adds
\* all succeeded and with the same listings, issue no add call.
C6_SecondRunAddsNothing ==
  RepeatsAdmission => AddCalls = {}

\* The second run is through, after a first run that added an episode.
C6_Witness ==
  /\ RepeatsAdmission
  /\ prev.added > 0
  /\ pc = "done"

\* ---- C11 --------------------------------------------------------------------
SnapshotFailed == \E k \in DOMAIN calls : calls[k].op = "getPlaylistTracks" /\ ~calls[k].ok

\* C11: when the fetch of the playlist snapshot fails the run is over: it issues
\* no lookup, no add and no removal call, the failed fetch is its last remote
\* call, and its one response is an error response, never the success outcome.
C11_SnapshotFailureAborts ==
  SnapshotFailed =>
    /\ LookupCalls = {} /\ AddCalls = {} /\ RemoveCalls = {}
    /\ calls[Len(calls)].op = "getPlaylistTracks"
    /\ pc = "failed"
    /\ Len(responses) = 1
    /\ ~Outcome.success /\ Outcome.status \in {500, 503}

\* The fetch failed with the status the library reported, on a playlist that
\* holds episodes and with listings that hold candidates.
C11_Witness ==
  /\ SnapshotFailed
  /\ Outcome.status = 503
  /\ playlist # <<>>
  /\ ListedUris # {}

\* ---- C12 --------------------------------------------------------------------
\* C12: when SPOTIFY_PLAYLIST_ID is missing the run issues no remote call at all
\* (no token refresh, no snapshot fetch, no lookup, add or removal) and ends
\* with the error response.
C12_MissingPlaylistIdIsFatal ==
  req.playlistId = "missing" =>
    /\ calls = <<>>
    /\ pc = "failed"
    /\ Len(responses) = 1
    /\ ~Outcome.success /\ Outcome.status = 500

\* The setting is missing in a run against a playlist with episodes to add.
C12_Witness ==
  /\ req.playlistId = "missing"
  /\ req.method = "GET" /\ req.authorized = "valid"
  /\ \E c \in UNION {Range(catalog[showId]) : showId \in ShowIds} :
       ShouldAdd(ExistingEpisodesOf(playlist), c)

\* ---- C13 --------------------------------------------------------------------
RemovalFailedIn(pass) == \E k \in RemoveCallsOf(pass) : ~calls[k].ok

\* The passes after a failed removal of the given pass have executed: the
\* Per-Show Cap pass has issued its first removal (when a show is over the cap)
\* and Completed Purge has fetched the metadata, both after the failed call.
LaterPassesRan(pass) ==
  \A k \in RemoveCallsOf(pass) :
    ~calls[k].ok =>
      /\ \E g \in DOMAIN calls : g > k /\ calls[g].op = "getEpisodes"
      /\ (pass = "age" /\ ShowsWithTooManyEpisodes(existingEpisodes) # <<>>)
           => \E c \in RemoveCallsOf("cap") : c > k

AbsorbedFailure ==
  /\ pc = "done"
  /\ Len(responses) = 1
  /\ Outcome.success /\ Outcome.status = 200
  /\ LaterPassesRan("age") /\ LaterPassesRan("cap")

\* C13: a removal call of Age Expiry or of Per-Show Cap that fails never leads
\* to the error response, and the run goes on through the later passes to Done
\* with success = true.
C13_FailedRemovalIsAbsorbed ==
  /\ []((RemovalFailedIn("age") \/ RemovalFailedIn("cap")) => pc \notin {"failed", "rejected"})
  /\ (RemovalFailedIn("age") \/ RemovalFailedIn("cap")) ~> AbsorbedFailure

\* The run is Done after the removal of Age Expiry and a removal of Per-Show
\* Cap have failed.
C13_Witness ==
  /\ RemovalFailedIn("age")
  /\ RemovalFailedIn("cap")
  /\ pc = "done"

\* ---- C14 --------------------------------------------------------------------
\* The URIs of the calls of an operation and a pass that succeeded.
UrisDone(op, passes) ==
  UNION {Range(calls[k].uris) :
           k \in {l \in DOMAIN calls :
                    calls[l].op = op /\ calls[l].pass \in passes /\ calls[l].ok}}

\* C14: when the getEpisodes response has no episodes field, Completed Purge
\* issues no removal call, the run still answers success = true, and the
\* playlist holds what admission, Age Expiry and Per-Show Cap left: the
\* snapshot and the added episodes, less the entries the two passes removed.
C14_MissingEpisodesFieldEndsThePass ==
  fetched.status = "noEpisodes" =>
    /\ RemoveCallsOf("purge") = {}
    /\ calls[Len(calls)].op = "getEpisodes"
    /\ pc \in {"respond", "done"}
    /\ pc = "done" =>
         /\ Len(responses) = 1
         /\ Outcome.success /\ Outcome.status = 200
         /\ Outcome.results = results
    /\ PlaylistUris \ {0} =
         (SnapshotUris \cup UrisDone("addTracksToPlaylist", {"admission"}))
           \ UrisDone("removeTracksFromPlaylist", {"age", "cap"})

\* The response lacked the field in a run that had added an episode and
\* removed an entry, and the run is Done.
C14_Witness ==
  /\ fetched.status = "noEpisodes"
  /\ pc = "done"
  /\ UrisDone("addTracksToPlaylist", {"admission"}) # {}
  /\ UrisDone("removeTracksFromPlaylist", {"age", "cap"}) # {}

\* ---- C15 --------------------------------------------------------------------
\* C15: when no snapshot entry was added more than OLD_EPISODES_DAYS days
\* before the run, no remote call of the run belongs to Age Expiry.
C15_NothingOldNoCall ==
  (SnapshotLoaded /\ Expired = {}) => \A k \in DOMAIN calls : calls[k].pass # "age"

\* Age Expiry is over on a snapshot whose entries were added on the cutoff day
\* or later.
C15_Witness ==
  /\ Expired = {}
  /\ existingEpisodes # <<>>
  /\ \E i \in DOMAIN existingEpisodes : existingEpisodes[i].addedAt = now - OLD_EPISODES_DAYS
  /\ pc \in {"cap", "purge", "purgeRemove", "respond", "done"}

\* ---- C16 --------------------------------------------------------------------
\* C16: every removal call of Per-Show Cap is for a show with more than
\* maxPerShow snapshot entries and names entries of that show only; when no
\* show has more than maxPerShow snapshot entries the pass issues no call.
C16_ShowsUnderTheCapAreUntouched ==
  /\ \A k \in RemoveCallsOf("cap") :
       /\ Cardinality(SnapshotOf(calls[k].show)) > MAX_EPISODES_PER_SHOW
       /\ \A i \in DOMAIN existingEpisodes :
            existingEpisodes[i].uri \in Range(calls[k].uris)
              => existingEpisodes[i].showId = calls[k].show
  /\ (\A showId \in ShowIds : Cardinality(SnapshotOf(showId)) <= MAX_EPISODES_PER_SHOW)
       => \A k \in DOMAIN calls : calls[k].pass # "cap"

\* The pass is over: it has removed an entry of a show over the cap, next to
\* a show that has exactly maxPerShow entries.
C16_Witness ==
  /\ pc \in {"purge", "purgeRemove", "respond", "done"}
  /\ \E k \in RemoveCallsOf("cap") : calls[k].ok
  /\ \E showId \in ShowIds : Cardinality(SnapshotOf(showId)) = MAX_EPISODES_PER_SHOW

\* ---- C17 --------------------------------------------------------------------
\* Snapshot entry i comes before entry j in a stable ascending sort by addedAt.
SortsBefore(i, j) ==
  \/ existingEpisodes[i].addedAt < existingEpisodes[j].addedAt
  \/ existingEpisodes[i].addedAt = existingEpisodes[j].addedAt /\ i < j

\* The place of a snapshot entry among the entries of its show, so sorted.
PlaceInShow(i) ==
  Cardinality({j \in SnapshotOf(existingEpisodes[i].showId) : SortsBefore(j, i)}) + 1

\* C17: a removal request of Per-Show Cap names, in this order, the entries at
\* the places 1..excess of the show's snapshot entries sorted ascending by
\* addedAt, entries of equal addedAt staying in snapshot order.
C17_TiesKeepSnapshotOrder ==
  \A k \in RemoveCallsOf("cap") :
    LET mine == SnapshotOf(calls[k].show)
        excess == Cardinality(mine) - MAX_EPISODES_PER_SHOW
    IN /\ Len(calls[k].uris) = excess
       /\ \A place \in 1..excess :
            \E i \in mine : PlaceInShow(i) = place /\ calls[k].uris[place] = existingEpisodes[i].uri

\* Of two entries of a show with the same addedAt, the pass has requested the
\* one that comes first in the snapshot and not the other.
C17_Witness ==
  \E k \in RemoveCallsOf("cap") :
    \E i \in SnapshotOf(calls[k].show) : \E j \in SnapshotOf(calls[k].show) :
      /\ i < j
      /\ existingEpisodes[i].addedAt = existingEpisodes[j].addedAt
      /\ existingEpisodes[i].uri \in Range(calls[k].uris)
      /\ existingEpisodes[j].uri \notin Range(calls[k].uris)

\* ---- C18 --------------------------------------------------------------------
\* The phase a remote call belongs to, in the order of the data flow.
PhaseOf(call) ==
  CASE call.pass = "token" -> 0
    [] call.pass = "snapshot" -> 1
    [] call.pass \in {"show", "admission"} -> 2
    [] call.pass = "age" -> 3
    [] call.pass = "cap" -> 4
    [] call.pass = "purge" -> 5

\* Completed Purge has returned: it has fetched the metadata and, unless it
\* ended in its catch block, issued its removal.
PurgeFinished ==
  /\ pc \in {"respond", "done"}
  /\ \E k \in DOMAIN calls : calls[k].op = "getEpisodes"
  /\ (fetched.status = "ok" /\ (fetched.nested \/ existingEpisodes = <<>>))
       => RemoveCallsOf("purge") # {}

\* C18: the remote calls of a run are issued one after the other in the order
\* of the phases: every lookup and add comes before every removal, the removal
\* of Age Expiry before those of Per-Show Cap, these before the calls of
\* Completed Purge, and the success outcome is sent only when Completed Purge
\* has returned, after which no call is issued.
C18_PhasesAreSequential ==
  /\ \A k \in 1..(Len(calls) - 1) : PhaseOf(calls[k]) <= PhaseOf(calls[k + 1])
  /\ \A a \in AddCalls \cup LookupCalls : \A r \in RemoveCalls : a < r
  /\ \A k \in RemoveCallsOf("age") : \A l \in RemoveCallsOf("cap") : k < l
  /\ \A k \in RemoveCallsOf("cap") : \A l \in RemoveCallsOf("purge") : k < l
  /\ \A k \in DOMAIN responses :
       responses[k].success => (pc = "done" /\ PurgeFinished /\ PassRan("age") /\ PassRan("cap"))

\* A Done run in which an episode was added and each of the three passes
\* issued a removal.
C18_Witness ==
  /\ pc = "done"
  /\ \E a \in AddCalls : calls[a].ok
  /\ RemoveCallsOf("age") # {}
  /\ RemoveCallsOf("cap") # {}
  /\ RemoveCallsOf("purge") # {}

\* ---- C19 --------------------------------------------------------------------
\* The request is one the handler turns away.
Unwelcome == req.method \notin {"GET", "unread"} \/ req.authorized = "invalid"

C20_ExactlyOneResponse ==
  /\ [](/\ Len(responses) <= 1
        /\ Terminated <=> Len(responses) = 1
        /\ Terminated =>
             /\ pc = "rejected" <=> Outcome.status \in {405, 401}
             /\ pc = "done" <=> Outcome.status = 200
             /\ pc = "done" <=> Outcome.success
             /\ pc = "failed" <=> Outcome.status \in {500, 503})
  /\ <>Terminated

\* The invocation has ended with its one response after an add failed and
\* the catch block of handleShowEpisodes threw.
C20_Witness ==
  /\ \E k \in AddCalls : ~calls[k].ok
  /\ pc = "failed"
  /\ Len(responses) = 1

\* ---- C21 --------------------------------------------------------------------
\* C21: no two add calls of a run are for the same URI, also when a listing
\* names a URI twice or two shows list the same URI.
C21_OneAddPerUri ==
  \A a \in AddCalls : \A b \in AddCalls :
    a # b => calls[a].uris[1] # calls[b].uris[1]

\* ---- C22 --------------------------------------------------------------------
AllListed == UNION {Range(catalog[showId]) : showId \in ShowIds}

\* The URI was added again in this invocation: an add for it succeeded and the
\* playlist holds it with the day of this run as its addedAt.
AddedAgain(u) ==
  /\ \E a \in AddCalls : calls[a].uris[1] = u /\ calls[a].ok
  /\ \E i \in DOMAIN playlist : playlist[i].uri = u /\ playlist[i].addedAt = now

\* This invocation is Done, after an invocation that was Done.
SecondRunDone == prev.outcome = "done" /\ pc = "done"

\* C22 as claimed: every URI that a retention pass of the run before removed
\* and that a listing still names is added again by the next run.
C22_RemovedAndListedIsAddedAgain ==
  SecondRunDone =>
    \A u \in prev.removed \cap ListedUris : AddedAgain(u)

\* C22 as amended: every URI that a retention pass of the run before removed
\* and that a listing still names, in a candidate that carries a name, is
\* added again by the next run; a URI that the listings name only in
\* candidates without a name is not.
C22_RemovedAndNamedIsAddedAgain ==
  SecondRunDone =>
    \A u \in prev.removed \cap ListedUris :
      AddedAgain(u) <=> \E c \in AllListed : c.uri = u /\ c.named

\* The run before removed an entry that its show still lists, the day has
\* changed, and this run has added it again.
C22_Witness ==
  /\ SecondRunDone
  /\ now = Now0 + 1
  /\ \E u \in prev.removed \cap ListedUris : AddedAgain(u)

\* ---- C23 --------------------------------------------------------------------
\* The shows with more than maxPerShow snapshot entries that no removal call of
\* Per-Show Cap was issued for.
OverCapUnhandled ==
  {showId \in ShowIds :
     /\ Cardinality(SnapshotOf(showId)) > MAX_EPISODES_PER_SHOW
     /\ \A k \in RemoveCallsOf("cap") : calls[k].show # showId}

\* C23: after a removal call of Per-Show Cap has failed, the pass is over: no
\* later call belongs to it, each show is named by at most one of its calls,
\* and the run is in Completed Purge or past it, with the metadata fetched
\* after the failed call once that pass is over.
C23_FailedCapRemovalEndsThePass ==
  \A k \in RemoveCallsOf("cap") :
    ~calls[k].ok =>
      /\ \A l \in RemoveCallsOf("cap") : l <= k /\ (l # k => calls[l].show # calls[k].show)
      /\ pc \in {"purge", "purgeRemove", "respond", "done"}
      /\ pc \in {"purgeRemove", "respond", "done"}
           => \E g \in DOMAIN calls : g > k /\ calls[g].op = "getEpisodes"
      /\ pc = "done" => Outcome.success

\* The removal for the first of two shows over the cap has failed, the other
\* show was left alone, and the run is Done.
C23_Witness ==
  /\ \E k \in RemoveCallsOf("cap") : ~calls[k].ok
  /\ OverCapUnhandled # {}
  /\ pc = "done"

\* ---- C24 --------------------------------------------------------------------
\* The position of a show in the configuration.
PlaceOf(showId) == CHOOSE i \in DOMAIN MY_SHOWS : MY_SHOWS[i] = showId

\* C24: in a Done outcome every record of results has success = true, the
\* records follow the order of MY_SHOWS with at most one record for a show,
\* and the shows with a record are the shows whose lookup returned an episode.
C24_ResultsRecordTheListedShows ==
  pc = "done" =>
    LET records == Outcome.results IN
      /\ Outcome.success
      /\ \A r \in DOMAIN records : records[r].success /\ records[r].showId \in ShowIds
      /\ \A r \in DOMAIN records : \A q \in DOMAIN records :
           r < q => PlaceOf(records[r].showId) < PlaceOf(records[q].showId)
      /\ \A showId \in ShowIds :
           (\E r \in DOMAIN records : records[r].showId = showId)
             <=> catalog[showId] # <<>>

\* A Done outcome with a record for one show and none for a show whose lookup
\* returned nothing.
C24_Witness ==
  /\ pc = "done"
  /\ Len(Outcome.results) = 1
  /\ \E showId \in ShowIds : catalog[showId] = <<>> /\ LookupSucceeded(showId)

====
